---- MODULE Spec2Model ----
(***************************************************************************)
(* Model of src/server.js: the Express route GET /api/weather/:city and    *)
(* the async function getCityWeather that relays one upstream CWA          *)
(* forecast document (dataset F-C0032-001) as a simplified JSON forecast.  *)
(*                                                                         *)
(* JavaScript values are modelled as follows.                              *)
(*   - strings are TLA+ strings, `+` / template literals are \o;           *)
(*   - the route parameter is a sequence of one-character strings so that  *)
(*     toLowerCase() can be computed character by character;               *)
(*   - arrays are sequences (index i of the source is index i+1 here);     *)
(*   - `undefined` is the marker Undefined;                                *)
(*   - the Chinese string literals of the source (city names, error and    *)
(*     message texts) are written as their English renderings, one         *)
(*     distinct string per distinct literal;                               *)
(*   - a TypeError thrown by reading a property of undefined/null is the   *)
(*     flag `threw` of the value an operator returns.                      *)
(***************************************************************************)
EXTENDS Integers, Sequences, FiniteSets, TLC

VARIABLES
    CWA_API_KEY,   \* process.env.CWA_API_KEY, read once at start-up
    pc,            \* per request: position of its handler
    param,         \* per request: req.params.city (sequence of characters)
    cityName,      \* per request: CITY_MAP[cityCode] handed to getCityWeather
    upstream,      \* per request: the axios.get calls issued for it
    reply,         \* per request: how its axios.get promise settled
    weatherData,   \* per request: the local weatherData of getCityWeather
    sent           \* per request: the responses written to res

vars == <<CWA_API_KEY, pc, param, cityName, upstream, reply, weatherData, sent>>

----------------------------------------------------------------------------
(* Bounds of the model *)

\* number of requests in flight at once (specification SpecConc)
NumReq == 2
\* largest number of time slots of one weather element
MaxSlots == 2
\* longest weather-element list of the freely generated (unaligned) records
MaxElems == 2

Requests == 1..NumReq

----------------------------------------------------------------------------
(* JavaScript values *)

Undefined == "undefined"

\* JavaScript truthiness of a string-or-undefined value
Truthy(v) == v # Undefined /\ v # ""

LowerChar(c) ==
    CASE c = "A" -> "a" [] c = "B" -> "b" [] c = "C" -> "c" [] c = "D" -> "d"
      [] c = "E" -> "e" [] c = "F" -> "f" [] c = "G" -> "g" [] c = "H" -> "h"
      [] c = "I" -> "i" [] c = "J" -> "j" [] c = "K" -> "k" [] c = "L" -> "l"
      [] c = "M" -> "m" [] c = "N" -> "n" [] c = "O" -> "o" [] c = "P" -> "p"
      [] c = "Q" -> "q" [] c = "R" -> "r" [] c = "S" -> "s" [] c = "T" -> "t"
      [] c = "U" -> "u" [] c = "V" -> "v" [] c = "W" -> "w" [] c = "X" -> "x"
      [] c = "Y" -> "y" [] c = "Z" -> "z" [] OTHER -> c

RECURSIVE Join(_)
Join(chars) == IF chars = <<>> THEN "" ELSE Head(chars) \o Join(Tail(chars))

\* req.params.city.toLowerCase()
ToLowerCase(chars) == Join([i \in DOMAIN chars |-> LowerChar(chars[i])])

----------------------------------------------------------------------------
(* Configuration *)

CITY_MAP ==
    [k \in {"taipei", "newtaipei", "taoyuan", "taichung", "tainan", "kaohsiung",
            "keelung", "hsinchu-city", "hsinchu", "miaoli", "changhua", "nantou",
            "yunlin", "chiayi-city", "chiayi", "pingtung", "yilan", "hualien",
            "taitung", "penghu", "kinmen", "lienchiang"} |->
        CASE k = "taipei" -> "Taipei City"
          [] k = "newtaipei" -> "New Taipei City"
          [] k = "taoyuan" -> "Taoyuan City"
          [] k = "taichung" -> "Taichung City"
          [] k = "tainan" -> "Tainan City"
          [] k = "kaohsiung" -> "Kaohsiung City"
          [] k = "keelung" -> "Keelung City"
          [] k = "hsinchu-city" -> "Hsinchu City"
          [] k = "hsinchu" -> "Hsinchu County"
          [] k = "miaoli" -> "Miaoli County"
          [] k = "changhua" -> "Changhua County"
          [] k = "nantou" -> "Nantou County"
          [] k = "yunlin" -> "Yunlin County"
          [] k = "chiayi-city" -> "Chiayi City"
          [] k = "chiayi" -> "Chiayi County"
          [] k = "pingtung" -> "Pingtung County"
          [] k = "yilan" -> "Yilan County"
          [] k = "hualien" -> "Hualien County"
          [] k = "taitung" -> "Taitung County"
          [] k = "penghu" -> "Penghu County"
          [] k = "kinmen" -> "Kinmen County"
          [] k = "lienchiang" -> "Lienchiang County"]

CityNames == {CITY_MAP[k] : k \in DOMAIN CITY_MAP}

\* CITY_MAP is an object literal, so a property read that misses its own keys
\* falls through to Object.prototype.  These are the properties found there;
\* each value (a function, or Object.prototype itself) is written as the
\* string a template literal renders it to.
ObjectPrototype ==
    [k \in {"constructor", "__proto__", "hasOwnProperty", "isPrototypeOf",
            "propertyIsEnumerable", "toLocaleString", "toString", "valueOf",
            "__defineGetter__", "__defineSetter__", "__lookupGetter__",
            "__lookupSetter__"} |->
        IF k = "__proto__" THEN "[object Object]"
        ELSE "function " \o (IF k = "constructor" THEN "Object" ELSE k)
                 \o "() { [native code] }"]

\* CITY_MAP[cityCode]
CityLookup(cityCode) ==
    IF cityCode \in DOMAIN CITY_MAP THEN CITY_MAP[cityCode]
    ELSE IF cityCode \in DOMAIN ObjectPrototype THEN ObjectPrototype[cityCode]
    ELSE Undefined

SupportedCities == DOMAIN CITY_MAP

\* mutant of KeyMissing: `CWA_API_KEY === null`, which an unset (undefined)
\* or empty variable never satisfies
KeyMissing_strictNull == FALSE

\* if (!CWA_API_KEY)

KeyMissing == ~Truthy(CWA_API_KEY)

----------------------------------------------------------------------------
(* Responses written to res *)

\* route handler, res.status(400).json(...)
UnsupportedCity(cityCode) ==
    [status |-> 400,
     body |-> [error |-> "unsupported city",
               message |-> "use one of the following city codes",
               supportedCities |-> SupportedCities,
               requestedCity |-> cityCode]]

ConfigError ==
    [status |-> 500,
     body |-> [error |-> "server configuration error",
               message |-> "set CWA_API_KEY in the .env file"]]

\* mutant of NotFoundMessage: the template literal without ${cityName}
NotFoundMessage_noName(name) == "cannot get weather data"

\* `cannot get ${cityName} weather data`

NotFoundMessage(name) == "cannot get " \o name \o " weather data"

NotFound(name) ==
    [status |-> 404,
     body |-> [error |-> "no data found", message |-> NotFoundMessage(name)]]

\* res.json({success: true, data: weatherData}) (status left at 200)
Success(data) ==
    [status |-> 200, body |-> [success |-> TRUE, data |-> data]]

\* error.response.data.message || <default message>
ErrorMessage(data) ==
    IF data.shape = "object" /\ Truthy(data.message) THEN data.message
    ELSE "cannot get weather data"

UpstreamError(response) ==
    [status |-> response.status,
     body |-> [error |-> "CWA API error",
               message |-> ErrorMessage(response.data),
               details |-> response.data]]

ServerError ==
    [status |-> 500,
     body |-> [error |-> "server error",
               message |-> "cannot get weather data, try again later"]]

----------------------------------------------------------------------------
(* Upstream replies: the raw documents and failures axios can deliver *)

\* the six element codes the switch of getCityWeather recognises
RecognizedCodes == {"Wx", "PoP", "MinT", "MaxT", "CI", "WS"}

\* a code the switch has no case for
OtherCode == "UVI"

ElementOrder == <<"Wx", "PoP", "MinT", "CI", "MaxT", "WS", OtherCode>>

\* parameter.parameterName of slot i of the element `name`
ParamValue(name, i) ==
    CASE name = "PoP" -> ToString(10 * i)
      [] name = "MinT" -> ToString(17 + i)
      [] name = "MaxT" -> ToString(24 + i)
      [] OTHER -> name \o "-" \o ToString(i)

\* one entry of element.time; `shift` moves the window by that many hours
TimeSlot(name, i, shift) ==
    [startTime |-> "T+" \o ToString(12 * (i - 1) + shift),
     endTime |-> "T+" \o ToString(12 * i + shift),
     parameter |-> [parameterName |-> ParamValue(name, i)]]

WeatherElement(name, n, shift) ==
    [elementName |-> name, time |-> [i \in 1..n |-> TimeSlot(name, i, shift)]]

\* element lists in which every element has the same number n of slots;
\* with skew = 1 the windows of later elements are shifted against the first
AlignedElements(S, n, skew) ==
    LET sel == SelectSeq(ElementOrder, LAMBDA x : x \in S)
    IN  [k \in 1..Len(sel) |-> WeatherElement(sel[k], n, (k - 1) * skew)]

AlignedLists ==
    {AlignedElements(S, n, skew) :
        S \in SUBSET (RecognizedCodes \cup {OtherCode}), n \in 0..MaxSlots,
        skew \in {0, 1}}

\* element lists with independent slot counts, repeated codes, any order
FreeElementSpecs == {"Wx", "PoP", OtherCode} \X (0..MaxSlots)

FreeLists ==
    UNION {
        {[k \in 1..len |-> WeatherElement(f[k][1], f[k][2], (k - 1) * skew)] :
            f \in [1..len -> FreeElementSpecs], skew \in {0, 1}} :
        len \in 0..MaxElems}

\* all six recognised elements with n slots each, and one element of another
\* code with m slots put before or after them
ExtendedLists ==
    {IF front
        THEN <<WeatherElement(OtherCode, m, 0)>> \o AlignedElements(RecognizedCodes, n, 0)
        ELSE AlignedElements(RecognizedCodes, n, 0) \o <<WeatherElement(OtherCode, m, 0)>> :
        n \in 0..MaxSlots, m \in 0..MaxSlots, front \in BOOLEAN}

LocationRecord(name, els) == [locationName |-> name, weatherElement |-> els]

\* a record that may follow the first one in records.location
SecondRecord ==
    LocationRecord("Penghu County",
        <<[elementName |-> "Wx",
           time |-> [i \in 1..(MaxSlots + 1) |->
                       [startTime |-> "X+" \o ToString(i),
                        endTime |-> "X+" \o ToString(i + 1),
                        parameter |-> [parameterName |-> "X-" \o ToString(i)]]]]>>)

Document(description, location) ==
    [shape |-> "document",
     records |-> [datasetDescription |-> description, location |-> location]]

Documents ==
    {Document("36h forecast", <<>>)} \cup
    {Document("36h forecast", <<LocationRecord("Taipei City", els)>> \o rest) :
        els \in AlignedLists \cup FreeLists \cup ExtendedLists,
        rest \in {<<>>, <<SecondRecord>>}}

\* response bodies that are no forecast document: the JSON text `null`, a
\* body that is not JSON (axios leaves it a string), a JSON object with and
\* without a message property
NullBody == [shape |-> "null"]
TextBody == [shape |-> "text"]
ObjectBody(message) == [shape |-> "object", message |-> message]

OtherBodies ==
    {NullBody, TextBody, ObjectBody(Undefined), ObjectBody("Unauthorized")}

\* the promise of axios.get: fulfilled with a 2xx response, rejected with the
\* non-2xx response, or rejected with no response at all (network failure)
Pending == [settled |-> "pending"]
Fulfilled(data) ==
    [settled |-> "fulfilled", response |-> [status |-> 200, data |-> data]]
RejectedWith(status, data) ==
    [settled |-> "rejected", hasResponse |-> TRUE,
     response |-> [status |-> status, data |-> data]]
NetworkFailure == [settled |-> "rejected", hasResponse |-> FALSE]

Replies ==
    {Fulfilled(d) : d \in Documents \cup OtherBodies} \cup
    {RejectedWith(st, d) : st \in {401, 503}, d \in OtherBodies} \cup
    {NetworkFailure}

----------------------------------------------------------------------------
(* getCityWeather after the await: building weatherData *)

\* the forecast literal of the for loop, from weatherElements[0].time[i]
NewForecast(slot) ==
    [startTime |-> slot.startTime,
     endTime |-> slot.endTime,
     weather |-> "",
     rain |-> "",
     minTemp |-> "",
     maxTemp |-> "",
     comfort |-> "",
     windSpeed |-> ""]

\* mutant of SwitchElementName: the case "Wx" has lost its break and falls
\* through into the case "PoP"
SwitchElementName_fallthrough(forecast, elementName, value) ==
    CASE elementName = "Wx" ->
            [forecast EXCEPT !.weather = value.parameterName,
                             !.rain = value.parameterName \o "%"]
      [] elementName = "PoP" ->
            [forecast EXCEPT !.rain = value.parameterName \o "%"]
      [] elementName = "MinT" ->
            [forecast EXCEPT !.minTemp = value.parameterName \o "°C"]
      [] elementName = "MaxT" ->
            [forecast EXCEPT !.maxTemp = value.parameterName \o "°C"]
      [] elementName = "CI" ->
            [forecast EXCEPT !.comfort = value.parameterName]
      [] elementName = "WS" ->
            [forecast EXCEPT !.windSpeed = value.parameterName]
      [] OTHER -> forecast

\* switch (element.elementName) { ... }
SwitchElementName(forecast, elementName, value) ==
    CASE elementName = "Wx" ->
            [forecast EXCEPT !.weather = value.parameterName]
      [] elementName = "PoP" ->
            [forecast EXCEPT !.rain = value.parameterName \o "%"]
      [] elementName = "MinT" ->
            [forecast EXCEPT !.minTemp = value.parameterName \o "°C"]
      [] elementName = "MaxT" ->
            [forecast EXCEPT !.maxTemp = value.parameterName \o "°C"]
      [] elementName = "CI" ->
            [forecast EXCEPT !.comfort = value.parameterName]
      [] elementName = "WS" ->
            [forecast EXCEPT !.windSpeed = value.parameterName]
      [] OTHER -> forecast

\* weatherElements.forEach((element) => ...) for slot i, from element k on:
\* element.time[i] is undefined when the element has fewer than i slots, and
\* reading its .parameter throws
RECURSIVE ForEachElement(_, _, _, _)
ForEachElement(weatherElements, k, i, forecast) ==
    IF k > Len(weatherElements) THEN [threw |-> FALSE, forecast |-> forecast]
    ELSE LET element == weatherElements[k]
         IN  IF i > Len(element.time)
             THEN [threw |-> TRUE, forecast |-> forecast]
             ELSE ForEachElement(weatherElements, k + 1, i,
                      SwitchElementName(forecast, element.elementName,
                                        element.time[i].parameter))

\* mutant of TimeCount: the loop stops one slot early
TimeCount_skipsLast(weatherElements) == Len(weatherElements[1].time) - 1

\* const timeCount = weatherElements[0].time.length
TimeCount(weatherElements) == Len(weatherElements[1].time)

\* for (let i = 0; i < timeCount; i++) { ...; weatherData.forecasts.push(forecast) }
RECURSIVE ForLoop(_, _, _, _)
ForLoop(weatherElements, i, timeCount, forecasts) ==
    IF i > timeCount THEN [threw |-> FALSE, forecasts |-> forecasts]
    ELSE LET each == ForEachElement(weatherElements, 1, i,
                         NewForecast(weatherElements[1].time[i]))
         IN  IF each.threw THEN [threw |-> TRUE, forecasts |-> forecasts]
             ELSE ForLoop(weatherElements, i + 1, timeCount,
                          Append(forecasts, each.forecast))

\* the value of the local weatherData before it is declared
NoWeatherData == [declared |-> FALSE]

\* mutant of CityOf: the requested name instead of the record's own
CityOf_requested(locationData, name) == name

\* city: locationData.locationName
CityOf(locationData, name) == locationData.locationName

WeatherData(city, updateTime, forecasts) ==
    [declared |-> TRUE, city |-> city, updateTime |-> updateTime,
     forecasts |-> forecasts]

\* the JSON rendering of weatherData in the success response
DataOf(wd) ==
    [city |-> wd.city, updateTime |-> wd.updateTime, forecasts |-> wd.forecasts]

\* the try block from `const locationData = ...` to res.json(...): the
\* responses it writes, whether it threw, and weatherData as it left it
TryBlock(response, name) ==
    IF response.data.shape # "document"
    THEN [threw |-> TRUE, responses |-> <<>>, weatherData |-> NoWeatherData]
    ELSE
    LET records == response.data.records IN
    IF records.location = <<>>
    THEN [threw |-> FALSE, responses |-> <<NotFound(name)>>,
          weatherData |-> NoWeatherData]
    ELSE
    LET locationData == records.location[1]
        city == CityOf(locationData, name)
        updateTime == records.datasetDescription
        weatherElements == locationData.weatherElement
    IN  IF weatherElements = <<>>
        THEN [threw |-> TRUE, responses |-> <<>>,
              weatherData |-> WeatherData(city, updateTime, <<>>)]
        ELSE
        LET loop == ForLoop(weatherElements, 1, TimeCount(weatherElements), <<>>)
            wd == WeatherData(city, updateTime, loop.forecasts)
        IN  IF loop.threw
            THEN [threw |-> TRUE, responses |-> <<>>, weatherData |-> wd]
            ELSE [threw |-> FALSE, responses |-> <<Success(DataOf(wd))>>,
                  weatherData |-> wd]

\* the error a failed property read throws: it has no .response
TypeError == [hasResponse |-> FALSE]

\* the catch block: reading error.response.data.message throws again when
\* the upstream body is null
CatchBlock(error) ==
    IF error.hasResponse
    THEN IF error.response.data.shape = "null"
         THEN [threw |-> TRUE, responses |-> <<>>]
         ELSE [threw |-> FALSE, responses |-> <<UpstreamError(error.response)>>]
    ELSE [threw |-> FALSE, responses |-> <<ServerError>>]

\* everything getCityWeather does once its axios.get promise has settled
AfterAwait(settlement, name) ==
    IF settlement.settled = "fulfilled"
    THEN LET try == TryBlock(settlement.response, name)
         IN  IF try.threw
             THEN LET catch == CatchBlock(TypeError)
                  IN  [threw |-> catch.threw, weatherData |-> try.weatherData,
                       responses |-> try.responses \o catch.responses]
             ELSE try
    ELSE LET catch == CatchBlock(settlement)
         IN  [threw |-> catch.threw, weatherData |-> NoWeatherData,
              responses |-> catch.responses]

----------------------------------------------------------------------------
(* The requests made of the server *)

RouteParams ==
    {<<"t", "a", "i", "p", "e", "i">>,
     <<"T", "a", "i", "p", "e", "i">>,
     <<"h", "s", "i", "n", "c", "h", "u", "-", "c", "i", "t", "y">>,
     <<"P", "E", "N", "G", "H", "U">>,
     <<"p", "a", "r", "i", "s">>,
     <<"t", "o", "S", "t", "r", "i", "n", "g">>,
     <<"c", "o", "n", "s", "t", "r", "u", "c", "t", "o", "r">>,
     <<"_", "_", "p", "r", "o", "t", "o", "_", "_">>}

ApiKeys == {Undefined, "", "CWA-0000"}

\* the upstream documents of the specification with concurrent requests
ConcReplies ==
    {Fulfilled(Document("36h forecast", <<>>)),
     Fulfilled(Document("36h forecast",
         <<LocationRecord("Taipei City", AlignedElements({"Wx", "PoP"}, 2, 0))>>)),
     Fulfilled(Document("36h forecast",
         <<LocationRecord("Taipei City", AlignedElements({"Wx", "PoP"}, 2, 0)),
           SecondRecord>>)),
     Fulfilled(Document("36h forecast, issued later",
         <<LocationRecord("Penghu County", AlignedElements({"MinT", OtherCode}, 1, 1))>>)),
     Fulfilled(Document("36h forecast",
         <<LocationRecord("Taipei City",
             <<WeatherElement("Wx", 2, 0), WeatherElement("PoP", 1, 0)>>)>>)),
     RejectedWith(503, TextBody),
     NetworkFailure}

ConcParams ==
    {<<"t", "a", "i", "p", "e", "i">>,
     <<"P", "E", "N", "G", "H", "U">>,
     <<"p", "a", "r", "i", "s">>}

----------------------------------------------------------------------------
(* State machine *)

Init ==
    /\ CWA_API_KEY \in ApiKeys
    /\ pc = [r \in Requests |-> "idle"]
    /\ param = [r \in Requests |-> <<>>]
    /\ cityName = [r \in Requests |-> Undefined]
    /\ upstream = [r \in Requests |-> <<>>]
    /\ reply = [r \in Requests |-> Pending]
    /\ weatherData = [r \in Requests |-> NoWeatherData]
    /\ sent = [r \in Requests |-> <<>>]

\* axios.get(url, {params: {Authorization: CWA_API_KEY, locationName: cityName}})
AxiosGet(name) ==
    [url |-> "https://opendata.cwa.gov.tw/api/v1/rest/datastore/F-C0032-001",
     Authorization |-> CWA_API_KEY,
     locationName |-> name]

\* GET /api/weather/:city arrives: the route handler and, for a city it
\* finds, getCityWeather up to its await
Route(r, p) ==
    /\ pc[r] = "idle"
    /\ param' = [param EXCEPT ![r] = p]
    /\ LET cityCode == ToLowerCase(p)
           name == CityLookup(cityCode)
       IN  /\ cityName' = [cityName EXCEPT ![r] = name]
           /\ IF ~Truthy(name)
              THEN /\ sent' = [sent EXCEPT ![r] = Append(@, UnsupportedCity(cityCode))]
                   /\ pc' = [pc EXCEPT ![r] = "done"]
                   /\ UNCHANGED upstream
              ELSE IF KeyMissing
              THEN /\ sent' = [sent EXCEPT ![r] = Append(@, ConfigError)]
                   /\ pc' = [pc EXCEPT ![r] = "done"]
                   /\ UNCHANGED upstream
              ELSE /\ upstream' = [upstream EXCEPT ![r] = Append(@, AxiosGet(name))]
                   /\ pc' = [pc EXCEPT ![r] = "awaiting"]
                   /\ UNCHANGED sent
    /\ UNCHANGED <<CWA_API_KEY, reply, weatherData>>

\* the upstream call of request r settles
Settle(r, settlement) ==
    /\ pc[r] = "awaiting"
    /\ reply' = [reply EXCEPT ![r] = settlement]
    /\ pc' = [pc EXCEPT ![r] = "settled"]
    /\ UNCHANGED <<CWA_API_KEY, param, cityName, upstream, weatherData, sent>>

\* mutant of ResponseOf: `response` is one variable shared by all requests,
\* holding the settlement of the call that settled for the highest request
ResponseOf_shared(r) ==
    LET have == {q \in Requests : reply[q] # Pending}
    IN  reply[CHOOSE q \in have : \A o \in have : o <= q]

\* const response = await axios.get(...): a local of the invocation
ResponseOf(r) == reply[r]

\* getCityWeather resumes after its await and runs to its end; when the
\* catch block itself throws, the promise getCityWeather returned rejects,
\* and the route handler, which dropped that promise, never learns of it
Resume(r) ==
    /\ pc[r] = "settled"
    /\ LET out == AfterAwait(ResponseOf(r), cityName[r])
       IN  /\ weatherData' = [weatherData EXCEPT ![r] = out.weatherData]
           /\ sent' = [sent EXCEPT ![r] = @ \o out.responses]
           /\ pc' = [pc EXCEPT ![r] = IF out.threw THEN "unhandled" ELSE "done"]
    /\ UNCHANGED <<CWA_API_KEY, param, cityName, upstream, reply>>

\* one request at a time, any upstream reply
Next ==
    \/ \E p \in RouteParams : Route(1, p)
    \/ \E settlement \in Replies : Settle(1, settlement)
    \/ Resume(1)

Spec == Init /\ [][Next]_vars

\* NumReq requests interleaved around their awaits
NextConc ==
    \E r \in Requests :
        \/ \E p \in ConcParams : Route(r, p)
        \/ \E settlement \in ConcReplies : Settle(r, settlement)
        \/ Resume(r)

SpecConc == Init /\ [][NextConc]_vars

----------------------------------------------------------------------------
(* Vocabulary of the properties *)

\* the handler of request r has run to its end
Finished(r) == pc[r] \in {"done", "unhandled"}

\* request r received a 2xx reply holding a forecast document
GotDocument(r) ==
    /\ reply[r].settled = "fulfilled"
    /\ reply[r].response.data.shape = "document"

LocationOf(r) == reply[r].response.data.records.location

\* the weather elements of the first location record of r's document
ElementsOf(r) == LocationOf(r)[1].weatherElement

CodesOf(els) == {els[k].elementName : k \in DOMAIN els}

\* request r was answered with exactly the success response
Succeeded(r) ==
    /\ Finished(r)
    /\ Len(sent[r]) = 1
    /\ sent[r][1].status = 200
    /\ DOMAIN sent[r][1].body = {"success", "data"}

ForecastsOf(r) == sent[r][1].body.data.forecasts

\* the string msg contains the string name
Contains(msg, name) ==
    \E pre \in {"", "cannot get "}, post \in {"", " weather data"} :
        msg = pre \o name \o post

\* the value field `code` must show for slot i: the value of the (last)
\* element carrying that code plus the unit, or "" when no element carries it
Expected(els, code, unit, i) ==
    LET at == {k \in DOMAIN els : els[k].elementName = code}
    IN  IF at = {} THEN ""
        ELSE LET last == CHOOSE k \in at : \A o \in at : o <= k
             IN  els[last].time[i].parameter.parameterName \o unit

----------------------------------------------------------------------------
(* C1 *)

\* C1: a 2xx document whose location list is empty ends in the not-found
\* response (404, "no data found") whose message contains the requested
\* location name; no forecast entry is built and no success response is sent.
C1_EmptyLocationListIsNotFound ==
    \A r \in Requests :
        (Finished(r) /\ GotDocument(r) /\ LocationOf(r) = <<>>) =>
            /\ pc[r] = "done"
            /\ Len(sent[r]) = 1
            /\ sent[r][1].status = 404
            /\ sent[r][1].body.error = "no data found"
            /\ Contains(sent[r][1].body.message, cityName[r])
            /\ weatherData[r] = NoWeatherData

C1_Witness ==
    \E r \in Requests :
        /\ Finished(r) /\ GotDocument(r) /\ LocationOf(r) = <<>>
        /\ cityName[r] = "Hsinchu City"

----------------------------------------------------------------------------
(* C2 *)

\* the first record of r's document carries all six recognised codes and
\* each of its elements has n slots
SixCodesWithSlots(r, n) ==
    /\ GotDocument(r)
    /\ LocationOf(r) # <<>>
    /\ RecognizedCodes \subseteq CodesOf(ElementsOf(r))
    /\ \A k \in DOMAIN ElementsOf(r) : Len(ElementsOf(r)[k].time) = n

----------------------------------------------------------------------------
(* C3 *)

\* C3: in every success response, entry i has weather = the Wx value,
\* rain = the PoP value and "%", minTemp = the MinT value and "°C",
\* maxTemp = the MaxT value and "°C", comfort = the CI value, windSpeed = the
\* WS value, each from slot i of that element; a field whose code is absent
\* from the record is "", and an element with any other code changes nothing.
C3_FieldsFollowCodes ==
    \A r \in Requests :
        (Succeeded(r) /\ GotDocument(r)) =>
            \A i \in DOMAIN ForecastsOf(r) :
                LET f == ForecastsOf(r)[i]
                    els == ElementsOf(r)
                IN  /\ DOMAIN f = {"startTime", "endTime", "weather", "rain",
                                   "minTemp", "maxTemp", "comfort", "windSpeed"}
                    /\ f.weather = Expected(els, "Wx", "", i)
                    /\ f.rain = Expected(els, "PoP", "%", i)
                    /\ f.minTemp = Expected(els, "MinT", "°C", i)
                    /\ f.maxTemp = Expected(els, "MaxT", "°C", i)
                    /\ f.comfort = Expected(els, "CI", "", i)
                    /\ f.windSpeed = Expected(els, "WS", "", i)

C3_Witness ==
    \E r \in Requests :
        /\ Succeeded(r) /\ GotDocument(r)
        /\ CodesOf(ElementsOf(r)) = {"Wx", "MaxT", OtherCode}
        /\ Len(ForecastsOf(r)) = 2
        /\ ForecastsOf(r)[2].maxTemp = "26°C"
        /\ ForecastsOf(r)[2].rain = ""

----------------------------------------------------------------------------
(* C4 *)

\* C4: handling a successfully received raw document ends in the success
\* response or in the not-found response, never in another error outcome.
C4_OnlyNotFoundFromDocuments ==
    \A r \in Requests :
        (Finished(r) /\ GotDocument(r)) =>
            /\ pc[r] = "done"
            /\ Len(sent[r]) = 1
            /\ sent[r][1].status \in {200, 404}

----------------------------------------------------------------------------
(* C5 *)

\* the upstream call of r failed: no response, a non-2xx response, or a 2xx
\* response whose body is no document
UpstreamFailed(r) ==
    /\ reply[r] # Pending
    /\ ~GotDocument(r)

\* C5: a request whose upstream call failed ends in one response that differs
\* from the response of every request whose upstream call did not fail, and
\* no forecast entry is built for it.
C5_UpstreamErrorDistinguishable ==
    \A r \in Requests :
        (Finished(r) /\ UpstreamFailed(r)) =>
            /\ Len(sent[r]) = 1
            /\ weatherData[r] = NoWeatherData
            /\ \A q \in Requests :
                (Finished(q) /\ GotDocument(q)) => sent[q] # sent[r]

----------------------------------------------------------------------------
(* C6 *)

\* the strings a forecast entry built from the document of r may hold
SlotTimesOf(r) ==
    {ElementsOf(r)[1].time[i].startTime : i \in DOMAIN ElementsOf(r)[1].time}
    \cup {ElementsOf(r)[1].time[i].endTime : i \in DOMAIN ElementsOf(r)[1].time}

ValuesOf(r) ==
    {""} \cup
    UNION {{ElementsOf(r)[k].time[i].parameter.parameterName \o unit :
                i \in DOMAIN ElementsOf(r)[k].time, unit \in {"", "%", "°C"}} :
            k \in DOMAIN ElementsOf(r)}

\* C6: with requests interleaved around their awaits, the response of a
\* request is a function of its own city code and its own upstream reply (two
\* requests with equal inputs end with equal responses and equal weatherData),
\* and every forecast entry of a request holds only values of that request's
\* own document.
C6_RequestsShareNothing ==
    /\ \A r, q \in Requests :
        (Finished(r) /\ Finished(q) /\ reply[r] # Pending
            /\ ToLowerCase(param[r]) = ToLowerCase(param[q])
            /\ reply[r] = reply[q]) =>
                /\ sent[r] = sent[q]
                /\ weatherData[r] = weatherData[q]
                /\ pc[r] = pc[q]
    /\ \A r \in Requests :
        (Finished(r) /\ weatherData[r] # NoWeatherData) =>
            /\ GotDocument(r)
            /\ LocationOf(r) # <<>>
            /\ \A i \in DOMAIN weatherData[r].forecasts :
                LET f == weatherData[r].forecasts[i]
                IN  /\ {f.startTime, f.endTime} \subseteq SlotTimesOf(r)
                    /\ {f.weather, f.rain, f.minTemp, f.maxTemp, f.comfort,
                        f.windSpeed} \subseteq ValuesOf(r)

C6_Witness ==
    \E r, q \in Requests :
        /\ r # q
        /\ Succeeded(r) /\ Succeeded(q)
        /\ reply[r] # reply[q]
        /\ ForecastsOf(r) # <<>> /\ ForecastsOf(q) # <<>>
        /\ ForecastsOf(r)[1].weather # ForecastsOf(q)[1].weather

----------------------------------------------------------------------------
(* C7 *)

\* C7: in every success response city is the locationName of the first
\* record (not the requested name) and updateTime is datasetDescription of
\* the same document; the records after the first have no influence: two
\* requests whose documents agree in datasetDescription and in the first
\* record are answered alike.
C7_FirstRecordDecides ==
    /\ \A r \in Requests :
        (Succeeded(r) /\ GotDocument(r)) =>
            /\ sent[r][1].body.data.city = LocationOf(r)[1].locationName
            /\ sent[r][1].body.data.updateTime =
                   reply[r].response.data.records.datasetDescription
    /\ \A r, q \in Requests :
        (Succeeded(r) /\ GotDocument(r) /\ Finished(q) /\ GotDocument(q)
            /\ LocationOf(q) # <<>>
            /\ LocationOf(q)[1] = LocationOf(r)[1]
            /\ reply[q].response.data.records.datasetDescription =
                   reply[r].response.data.records.datasetDescription) =>
                sent[q] = sent[r]

C7_Witness ==
    \E r, q \in Requests :
        /\ Succeeded(r) /\ Succeeded(q)
        /\ Len(LocationOf(r)) = 2 /\ Len(LocationOf(q)) = 1
        /\ LocationOf(q)[1] = LocationOf(r)[1]
        /\ cityName[r] = "Penghu County"
        /\ sent[r][1].body.data.city = "Taipei City"

----------------------------------------------------------------------------
(* C8 *)

\* C8: with CWA_API_KEY unset (or empty), every request for a supported city
\* is answered at once with the configuration error (500, "server
\* configuration error"): it never waits for an upstream call, none is
\* issued for it, and nothing more is sent for it.
C8_MissingKeyFailsFast ==
    \A r \in Requests :
        (CWA_API_KEY \in {Undefined, ""} /\ pc[r] # "idle"
            /\ ToLowerCase(param[r]) \in SupportedCities) =>
                /\ pc[r] = "done"
                /\ upstream[r] = <<>>
                /\ Len(sent[r]) = 1
                /\ sent[r][1].status = 500
                /\ sent[r][1].body.error = "server configuration error"

C8_Witness ==
    \E r \in Requests :
        /\ CWA_API_KEY = Undefined
        /\ pc[r] = "done"
        /\ ToLowerCase(param[r]) = "hsinchu-city"
        /\ sent[r] = <<ConfigError>>

----------------------------------------------------------------------------
(* C9 *)

\* C9: a request whose lower-cased city parameter is none of the 22 keys of
\* CITY_MAP is answered 400 "unsupported city" with no upstream call, and
\* every upstream call carries a locationName that is one of the 22 values.
C9_OnlySupportedCitiesReachUpstream ==
    \A r \in Requests :
        /\ (pc[r] # "idle" /\ ToLowerCase(param[r]) \notin SupportedCities) =>
                /\ upstream[r] = <<>>
                /\ Len(sent[r]) = 1
                /\ sent[r][1].status = 400
                /\ sent[r][1].body.error = "unsupported city"
        /\ \A k \in DOMAIN upstream[r] : upstream[r][k].locationName \in CityNames

----------------------------------------------------------------------------
(* C10 *)

\* C10: when the handler of a request has run to its end, exactly one
\* response has been sent for it.
C10_ExactlyOneResponse ==
    \A r \in Requests : Finished(r) => Len(sent[r]) = 1

====
